---- MODULE Spec2Model ----
(***************************************************************************)
(* The CWA weather proxy: the two request handlers getWeatherByCity and    *)
(* reverseGeocode, the routes that dispatch to them, and the two upstream  *)
(* services (CWA open data, OSM Nominatim) as the environment.             *)
(*                                                                         *)
(* The repository holds two builds of the server: src/unnamed/part_000     *)
(* and src/server.js.  The variable build says which one is running.       *)
(*                                                                         *)
(* Conventions.                                                            *)
(*  - A JavaScript value is a tagged record: undefined, null, Str(s),      *)
(*    Obj-like records with t = "object", Arr(items).                      *)
(*  - JavaScript arrays are 0-based, TLA+ sequences 1-based: time index i  *)
(*    of the code is position i + 1 here.                                  *)
(*  - String literals outside Latin-1 are written in ASCII:                *)
(*      "tai-bei-shi"   台北市      "TAI-bei-shi"   臺北市                 *)
(*      "tai-zhong-shi" 台中市      "TAI-zhong-shi" 臺中市                 *)
(*      "tai-nan-shi"   台南市      "TAI-nan-shi"   臺南市                 *)
(*      "tai-dong-xian" 台東縣      "TAI-dong-xian" 臺東縣                 *)
(*      "gao-xiong-shi" 高雄市      "xin-bei-shi"   新北市                 *)
(*      "ban-qiao-qu"   板橋區      "tai-wan-sheng" 臺灣省                 *)
(*    and the error labels and messages as named below.                    *)
(***************************************************************************)
EXTENDS Naturals, Sequences, FiniteSets, TLC

\* ------------------------------------------------------------------ bounds
\* Requests handled concurrently.
NumReq == 2
\* Longest weatherElement list of an enumerated upstream location.
MaxElements == 2
\* Longest time series of an enumerated weather element.
MaxSlots == 2

Requests == 1..NumReq

\* ------------------------------------------------------- JavaScript values
undefined == [t |-> "undefined"]
null == [t |-> "null"]
Str(s) == [t |-> "string", v |-> s]
Arr(items) == [t |-> "array", items |-> items]
EmptyObject == [t |-> "object"]

\* JavaScript truthiness of the values the handlers test with ! and ||.
Truthy(x) == /\ x.t \notin {"undefined", "null"}
             /\ (x.t = "string" => x.v # "")

\* x || y
OrElse(x, y) == IF Truthy(x) THEN x ELSE y

\* The string a value becomes under + with a string.
ToJSString(x) == IF x.t = "string" THEN x.v ELSE x.t

\* x + suffix, with suffix a string literal
Plus(x, suffix) == Str(ToJSString(x) \o suffix)

\* --------------------------------------------------- labels and messages
\* error: "伺服器設定錯誤" / message: "請在 .env 檔案中設定 CWA_API_KEY"
ServerMisconfiguration == "config-error"
MsgSetApiKey == Str("set CWA_API_KEY in .env")
\* error: "參數錯誤"
MissingParameter == "parameter-error"
\* message: "請在查詢字串提供 city，例如 ?city=高雄市"
MsgProvideCity == Str("provide city in the query string")
\* error: "查無資料"
NotFound == "no-data"
\* error: "CWA API 錯誤" / default message "無法取得天氣資料"
UpstreamErrorCwa == "CWA-API-error"
MsgNoWeather == Str("cannot get weather data")
\* error: "伺服器錯誤" / message "無法取得天氣資料，請稍後再試"
InternalError == "server-error"
MsgNoWeatherRetry == Str("cannot get weather data, retry later")
\* error: "查無城市名稱" / message "無法從座標取得城市資訊"
NotFoundCity == "no-city-name"
MsgNoCityFromCoords == Str("cannot get city from coordinates")
\* error: "ReverseGeocode API 錯誤" / default message "無法取得縣市資訊"
UpstreamErrorGeocode == "ReverseGeocode-API-error"
MsgNoCounty == Str("cannot get county")
\* message "無法取得縣市資訊，請稍後再試"
MsgNoCountyRetry == Str("cannot get county, retry later")

Builds == {"part_000", "server"}

\* message of the 400 of reverseGeocode: the example URL differs by build
MsgProvideLatLng(b) ==
  IF b = "part_000" THEN Str("provide lat and lng, e.g. ?lat=25.0478&lng=121.5319")
  ELSE Str("provide lat and lng, e.g. ?lat=...&lng=...")

\* message of the 404 of getWeatherByCity: built from the city
MsgNoDataFor(b, city) ==
  IF b = "part_000"
  THEN Plus(Plus(Str("no weather data for <"), ToJSString(city)),
            "> (the name may not match the CWA format)")
  ELSE Plus(Plus(Plus(Str("no "), ToJSString(city)), " "), "weather data")

\* ------------------------------------------------------------- responses
\* res.status(s).json(body): the fields a body can carry; a field a body
\* does not carry is undefined (success: "absent").
Json(status, success, error, message, data, city, details) ==
  [status |-> status, success |-> success, error |-> error,
   message |-> message, data |-> data, city |-> city, details |-> details]

\* res.json(body) leaves the status at its default
StatusOK == 200

ErrorJson(status, error, message) ==
  Json(status, "absent", error, message, undefined, undefined, undefined)

\* ------------------------------------------------------ handler plumbing
\* What a stretch of handler code ends with: a response sent (a return of
\* res...json), an outbound call awaited, or an exception thrown.
Respond(res) == [kind |-> "respond", res |-> res]
Await(call) == [kind |-> "await", call |-> call]
Throw(error) == [kind |-> "throw", error |-> error]

\* axios.get(url, {params})
AxiosGet(url, params) == [url |-> url, params |-> params]

\* An exception raised by the handler's own code (a TypeError on reading a
\* property of undefined): an error object with no response property.
TypeError == [response |-> undefined]

\* The error axios rejects with: error.response is the upstream's answer
\* ([status, data]) or undefined when the upstream did not answer.
AxiosError(reply) ==
  IF reply.outcome = "error-response"
  THEN [response |-> [t |-> "object", status |-> reply.status, data |-> reply.data]]
  ELSE [response |-> undefined]

CWA_API_BASE_URL == "https://opendata.cwa.gov.tw/api"
NominatimUrl == "https://nominatim.openstreetmap.org/reverse"

\* ------------------------------------------------------ getWeatherByCity
\* Mutants of GetWeatherByCityStart: the parameter check before the
\* credential check; a parameter check that lets the empty string through.
GetWeatherByCityStart_ParamFirst(key, q) ==
  IF ~Truthy(q.city)
  THEN Respond(ErrorJson(400, MissingParameter, MsgProvideCity))
  ELSE IF ~Truthy(key)
  THEN Respond(ErrorJson(500, ServerMisconfiguration, MsgSetApiKey))
  ELSE Await(AxiosGet(CWA_API_BASE_URL \o "/v1/rest/datastore/F-C0032-001",
                      [Authorization |-> key, locationName |-> q.city]))

GetWeatherByCityStart_UndefinedOnly(key, q) ==
  IF ~Truthy(key)
  THEN Respond(ErrorJson(500, ServerMisconfiguration, MsgSetApiKey))
  ELSE IF q.city.t = "undefined"
  THEN Respond(ErrorJson(400, MissingParameter, MsgProvideCity))
  ELSE Await(AxiosGet(CWA_API_BASE_URL \o "/v1/rest/datastore/F-C0032-001",
                      [Authorization |-> key, locationName |-> q.city]))

\* Up to the await: credential check, parameter check, the outbound call.
GetWeatherByCityStart(key, q) ==
  IF ~Truthy(key)
  THEN Respond(ErrorJson(500, ServerMisconfiguration, MsgSetApiKey))
  ELSE IF ~Truthy(q.city)
  THEN Respond(ErrorJson(400, MissingParameter, MsgProvideCity))
  ELSE Await(AxiosGet(CWA_API_BASE_URL \o "/v1/rest/datastore/F-C0032-001",
                      [Authorization |-> key, locationName |-> q.city]))

\* The element codes the switch recognizes.
RecognizedCodes == {"Wx", "PoP", "MinT", "MaxT", "CI", "WS"}

\* The forecast object as created at the top of the loop body for index i;
\* first is weatherElements[0].
NewForecast(first, i) ==
  [startTime |-> first.time[i].startTime,
   endTime |-> first.time[i].endTime,
   weather |-> Str(""), rain |-> Str(""), minTemp |-> Str(""),
   maxTemp |-> Str(""), comfort |-> Str(""), windSpeed |-> Str("")]

\* Mutant of SwitchElementName: the PoP case without its suffix, the
\* temperature cases crossed.
SwitchElementName_Crossed(forecast, code, value) ==
  CASE code = "Wx" -> [forecast EXCEPT !.weather = value.parameterName]
    [] code = "PoP" -> [forecast EXCEPT !.rain = value.parameterName]
    [] code = "MinT" -> [forecast EXCEPT !.maxTemp = Plus(value.parameterName, "°C")]
    [] code = "MaxT" -> [forecast EXCEPT !.minTemp = Plus(value.parameterName, "°C")]
    [] code = "CI" -> [forecast EXCEPT !.comfort = value.parameterName]
    [] code = "WS" -> [forecast EXCEPT !.windSpeed = value.parameterName]
    [] OTHER -> forecast

\* The switch on element.elementName, with value = element.time[i].parameter
\* an object.
SwitchElementName(forecast, code, value) ==
  CASE code = "Wx" -> [forecast EXCEPT !.weather = value.parameterName]
    [] code = "PoP" -> [forecast EXCEPT !.rain = Plus(value.parameterName, "%")]
    [] code = "MinT" -> [forecast EXCEPT !.minTemp = Plus(value.parameterName, "°C")]
    [] code = "MaxT" -> [forecast EXCEPT !.maxTemp = Plus(value.parameterName, "°C")]
    [] code = "CI" -> [forecast EXCEPT !.comfort = value.parameterName]
    [] code = "WS" -> [forecast EXCEPT !.windSpeed = value.parameterName]
    [] OTHER -> forecast

\* One call of the forEach callback: Throw when element.time[i] is undefined
\* (reading .parameter of it), or when a recognized case reads
\* .parameterName of an undefined value.
ForEachCallback(forecast, element, i) ==
  IF i > Len(element.time)
  THEN Throw(TypeError)
  ELSE LET value == element.time[i].parameter
       IN IF element.elementName \in RecognizedCodes /\ value.t = "undefined"
          THEN Throw(TypeError)
          ELSE Respond(SwitchElementName(forecast, element.elementName, value))

\* weatherElements.forEach(...) from element k on, in list order.
RECURSIVE ForEachElement(_, _, _, _)
ForEachElement(forecast, elements, i, k) ==
  IF k > Len(elements)
  THEN Respond(forecast)
  ELSE LET step == ForEachCallback(forecast, elements[k], i)
       IN IF step.kind = "throw"
          THEN step
          ELSE ForEachElement(step.res, elements, i, k + 1)

\* for (let i = 0; i < timeCount; i++) { ... forecasts.push(forecast) }
RECURSIVE ForecastLoop(_, _, _, _)
ForecastLoop(forecasts, elements, i, timeCount) ==
  IF i > timeCount
  THEN Respond(forecasts)
  ELSE LET done == ForEachElement(NewForecast(elements[1], i), elements, i, 1)
       IN IF done.kind = "throw"
          THEN done
          ELSE ForecastLoop(Append(forecasts, done.res), elements, i + 1, timeCount)

\* const records = response.data && response.data.records   (part_000)
\* const records = response.data.records                    (server.js)
RecordsOf(b, data) ==
  IF Truthy(data)
  THEN Respond(data.records)
  ELSE IF b = "part_000" THEN Respond(data) ELSE Throw(TypeError)

\* Mutant of NoLocation: the test of the list's length left out.
NoLocation_NoLengthTest(b, records) ==
  \/ ~Truthy(records)
  \/ ~Truthy(records.location)
  \/ (b = "part_000" /\ records.location.t # "array")

\* The condition under which the handler answers 404.
NoLocation(b, records) ==
  \/ ~Truthy(records)
  \/ ~Truthy(records.location)
  \/ (b = "part_000" /\ records.location.t # "array")
  \/ (records.location.t = "array" /\ Len(records.location.items) = 0)

\* From locationData = records.location[0] to the success response.
ExtractWeather(records) ==
  IF records.location.t # "array" \/ Len(records.location.items) = 0
  THEN Throw(TypeError)    \* location[0] is undefined: .locationName throws
  ELSE
  LET locationData == records.location.items[1]
      weatherElements == locationData.weatherElement
  IN IF weatherElements.t # "array" \/ Len(weatherElements.items) = 0
     THEN Throw(TypeError) \* weatherElements[0].time
     ELSE LET timeCount == Len(weatherElements.items[1].time)
              loop == ForecastLoop(<<>>, weatherElements.items, 1, timeCount)
          IN IF loop.kind = "throw"
             THEN loop
             ELSE Respond(Json(StatusOK, "true", "", undefined,
                               [t |-> "object",
                                city |-> locationData.locationName,
                                updateTime |-> records.datasetDescription,
                                forecasts |-> loop.res],
                               undefined, undefined))

\* The try block after the await resolved with response.data = data.
WeatherTryBody(b, city, data) ==
  LET rec == RecordsOf(b, data)
  IN IF rec.kind = "throw"
     THEN rec
     ELSE IF NoLocation(b, rec.res)
     THEN Respond(ErrorJson(404, NotFound, MsgNoDataFor(b, city)))
     ELSE ExtractWeather(rec.res)

\* respData.message of the catch block: respData is error.response.data || {}
\* in part_000, error.response.data?.message in server.js.
MessageOf(data) ==
  IF data.t = "object" THEN data.message ELSE undefined

\* details of the catch block's body.
DetailsOf(b, data) ==
  IF b = "part_000" THEN OrElse(data, EmptyObject) ELSE data

\* Mutant of WeatherCatch: every failure answered 500.
WeatherCatch_Always500(b, error) ==
  IF Truthy(error.response)
  THEN Respond(Json(500, "absent", UpstreamErrorCwa,
                    OrElse(MessageOf(error.response.data), MsgNoWeather),
                    undefined, undefined, DetailsOf(b, error.response.data)))
  ELSE Respond(ErrorJson(500, InternalError, MsgNoWeatherRetry))

\* The catch block of getWeatherByCity.
WeatherCatch(b, error) ==
  IF Truthy(error.response)
  THEN Respond(Json(error.response.status, "absent", UpstreamErrorCwa,
                    OrElse(MessageOf(error.response.data), MsgNoWeather),
                    undefined, undefined, DetailsOf(b, error.response.data)))
  ELSE Respond(ErrorJson(500, InternalError, MsgNoWeatherRetry))

\* The try block from the settled await on: an await that rejects throws
\* the axios error.
WeatherTry(b, city, reply) ==
  IF reply.outcome = "resolved"
  THEN WeatherTryBody(b, city, reply.data)
  ELSE Throw(AxiosError(reply))

\* Mutant of GetWeatherByCityResume: no catch, an exception leaves the
\* handler.
GetWeatherByCityResume_NoCatch(b, city, reply) == WeatherTry(b, city, reply)

\* getWeatherByCity from the settled await on: try { ... } catch (error).
GetWeatherByCityResume(b, city, reply) ==
  LET out == WeatherTry(b, city, reply)
  IN IF out.kind = "throw" THEN WeatherCatch(b, out.error) ELSE out

\* -------------------------------------------------------- reverseGeocode
\* obj.f for an object that may not carry f
Get(obj, f) == IF f \in DOMAIN obj THEN obj[f] ELSE undefined

\* Mutant of mapping: a legacy name mapped to another legacy name.
mapping_Chained(name) ==
  CASE name = Str("tai-bei-shi") -> Str("tai-zhong-shi")
    [] name = Str("tai-zhong-shi") -> Str("TAI-zhong-shi")
    [] name = Str("tai-nan-shi") -> Str("TAI-nan-shi")
    [] name = Str("tai-dong-xian") -> Str("TAI-dong-xian")
    [] OTHER -> undefined

\* The lookup table both normalizations use: mapping[name], undefined for a
\* name that is no key.
mapping(name) ==
  CASE name = Str("tai-bei-shi") -> Str("TAI-bei-shi")
    [] name = Str("tai-zhong-shi") -> Str("TAI-zhong-shi")
    [] name = Str("tai-nan-shi") -> Str("TAI-nan-shi")
    [] name = Str("tai-dong-xian") -> Str("TAI-dong-xian")
    [] OTHER -> undefined

\* Up to the await: parameter check, the outbound call.
ReverseGeocodeStart(b, q) ==
  IF ~Truthy(q.lat) \/ ~Truthy(q.lng)
  THEN Respond(Json(400, "false", MissingParameter, MsgProvideLatLng(b),
                    undefined, undefined, undefined))
  ELSE Await(AxiosGet(NominatimUrl,
                      [format |-> "jsonv2", lat |-> q.lat, lon |-> q.lng,
                       acceptLanguage |-> "zh-TW",
                       addressdetails |-> IF b = "part_000" THEN "1" ELSE "absent",
                       userAgent |-> IF b = "part_000" THEN "default"
                                     ELSE "CWA-Weather-Demo (example@example.com)"]))

\* const data = response.data || {}   (part_000)
\* const data = response.data         (server.js)
GeocodeData(b, data) ==
  IF b = "part_000" THEN OrElse(data, EmptyObject) ELSE data

\* Mutant of SelectCityName: city preferred to county in part_000 too.
SelectCityName_CityFirst(b, address) ==
  OrElse(Get(address, "city"),
  OrElse(Get(address, "county"),
  OrElse(Get(address, "town"),
  OrElse(Get(address, "city_district"),
  OrElse(Get(address, "state"), Str(""))))))

\* The preference chain over the address fields.
SelectCityName(b, address) ==
  IF b = "part_000"
  THEN OrElse(Get(address, "county"),
       OrElse(Get(address, "city"),
       OrElse(Get(address, "town"),
       OrElse(Get(address, "city_district"),
       OrElse(Get(address, "state"), Str(""))))))
  ELSE OrElse(Get(address, "city"),
       OrElse(Get(address, "county"),
       OrElse(Get(address, "state"), Str(""))))

\* const normalizedCity = mapping[rawCityName] || rawCityName  (part_000);
\* server.js returns the selected name as it is.
NormalizedCity(b, rawCityName) ==
  IF b = "part_000" THEN OrElse(mapping(rawCityName), rawCityName) ELSE rawCityName

\* The try block after the await resolved with response.data = raw.
GeocodeTryBody(b, raw) ==
  LET data == GeocodeData(b, raw)
  IN IF ~Truthy(data)
     THEN Throw(TypeError)   \* server.js: data.address of null
     ELSE
     LET address == OrElse(Get(data, "address"), EmptyObject)
         rawCityName == SelectCityName(b, address)
     IN IF ~Truthy(rawCityName)
        THEN Respond(Json(404, "false", NotFoundCity, MsgNoCityFromCoords,
                          undefined, undefined, data))
        ELSE Respond(Json(StatusOK, "true", "", undefined, undefined,
                          NormalizedCity(b, rawCityName), data))

\* msg of the catch block.
GeocodeErrorMessage(b, respData) ==
  IF b = "part_000"
  THEN IF respData.t = "string"
       THEN respData
       ELSE IF Truthy(respData) /\ Truthy(Get(respData, "error"))
       THEN respData.error
       ELSE MsgNoCounty
  ELSE IF respData.t = "object"
       THEN OrElse(Get(respData, "error"), MsgNoCounty)
       ELSE MsgNoCounty

\* The catch block of reverseGeocode.
GeocodeCatch(b, error) ==
  IF Truthy(error.response)
  THEN Respond(Json(error.response.status, "false", UpstreamErrorGeocode,
                    GeocodeErrorMessage(b, error.response.data),
                    undefined, undefined, undefined))
  ELSE Respond(Json(500, "false", InternalError, MsgNoCountyRetry,
                    undefined, undefined, undefined))

\* The try block from the settled await on.
GeocodeTry(b, reply) ==
  IF reply.outcome = "resolved"
  THEN GeocodeTryBody(b, reply.data)
  ELSE Throw(AxiosError(reply))

\* reverseGeocode from the settled await on: try { ... } catch (error).
ReverseGeocodeResume(b, reply) ==
  LET out == GeocodeTry(b, reply)
  IN IF out.kind = "throw" THEN GeocodeCatch(b, out.error) ELSE out

\* ------------------------------------------- normalizeTaiwanCityName
\* The place names of the model, and each with surrounding blanks.
PlaceNames ==
  {"tai-bei-shi", "tai-zhong-shi", "tai-nan-shi", "tai-dong-xian",
   "TAI-bei-shi", "TAI-zhong-shi", "TAI-nan-shi", "TAI-dong-xian",
   "gao-xiong-shi", "xin-bei-shi", "ban-qiao-qu", "tai-wan-sheng"}

Padded(name) == " " \o name \o " "

\* rawName.trim(), on the names of the model
Trim(s) ==
  IF \E n \in PlaceNames : s = Padded(n)
  THEN CHOOSE n \in PlaceNames : s = Padded(n)
  ELSE s

\* The helper at the top of part_000 (no route calls it).
normalizeTaiwanCityName(rawName) ==
  IF ~Truthy(rawName)
  THEN Str("")
  ELSE LET name == Str(Trim(rawName.v))
       IN IF Truthy(mapping(name)) THEN mapping(name) ELSE name

\* ------------------------------------------------- inputs: the requests
Query(city, lat, lng) == [city |-> city, lat |-> lat, lng |-> lng]

\* ?city=... of a weather request: absent, empty, or a name.
CityParams == {undefined, Str(""), Str("gao-xiong-shi"), Str("tai-bei-shi")}
\* ?lat=...&lng=... of a geocode request.
LatParams == {undefined, Str(""), Str("25.0478")}
LngParams == {undefined, Str(""), Str("121.5319")}

WeatherQueries == {Query(c, undefined, undefined) : c \in CityParams}
GeocodeQueries == {Query(undefined, lat, lng) : lat \in LatParams, lng \in LngParams}

\* ------------------------------------- inputs: what the upstreams answer
\* An upstream's answer to one call: the promise resolves with data, rejects
\* with the upstream's failure response, or rejects with no response.
Resolved(data) == [outcome |-> "resolved", status |-> StatusOK, data |-> data]
ErrorResponse(status, data) == [outcome |-> "error-response", status |-> status, data |-> data]
NoResponse == [outcome |-> "no-response", status |-> 0, data |-> undefined]
NoReply == [outcome |-> "none", status |-> 0, data |-> undefined]

ErrBody(message, error) == [t |-> "object", message |-> message, error |-> error]

ErrorStatuses == {401, 404, 500}
ErrorBodies ==
  {undefined, Str(""), Str("Bad Gateway"),
   ErrBody(Str("invalid key"), undefined),
   ErrBody(undefined, Str("Unable to geocode")),
   ErrBody(undefined, undefined)}

FailureReplies ==
  {ErrorResponse(st, d) : st \in ErrorStatuses, d \in ErrorBodies} \cup {NoResponse}

\* The element codes an upstream location carries: the six the handler
\* knows and one it does not.
Codes == RecognizedCodes \cup {"UVI"}
\* The element list of the dataset in full.
FullCodes == <<"Wx", "PoP", "MinT", "CI", "MaxT", "WS">>

CodeSeqs == UNION {[1..k -> Codes] : k \in 0..MaxElements} \cup {FullCodes}

\* What may be wrong with an element list of k series of n slots: nothing;
\* series e one slot shorter or longer than the rest; slot i of series e
\* without its parameter, or without its parameterName.
NoDefect == [kind |-> "none", e |-> 0, i |-> 0]
Defects(k, n) ==
  {NoDefect}
  \cup {[kind |-> "short", e |-> e, i |-> 0] : e \in {x \in 1..k : n >= 1}}
  \cup {[kind |-> "long", e |-> e, i |-> 0] : e \in {x \in 1..k : n < MaxSlots}}
  \cup {[kind |-> kd, e |-> e, i |-> i] :
          kd \in {"noParameter", "noParameterName"}, e \in 1..k, i \in 1..n}

\* Slot i of series e: every cell of a location has its own value.
ParameterOf(e, i, d) ==
  IF d.e = e /\ d.i = i /\ d.kind = "noParameter"
  THEN undefined
  ELSE [t |-> "object",
        parameterName |-> IF d.e = e /\ d.i = i /\ d.kind = "noParameterName"
                          THEN undefined
                          ELSE Str(ToString(10 * e + i))]

SlotOf(e, i, d) ==
  [startTime |-> Str("start-" \o ToString(e) \o "-" \o ToString(i)),
   endTime |-> Str("end-" \o ToString(e) \o "-" \o ToString(i)),
   parameter |-> ParameterOf(e, i, d)]

SeriesLen(e, n, d) ==
  IF d.e = e /\ d.kind = "short" THEN n - 1
  ELSE IF d.e = e /\ d.kind = "long" THEN n + 1
  ELSE n

ElementsOf(cs, n, d) ==
  [e \in 1..Len(cs) |->
     [elementName |-> cs[e],
      time |-> [i \in 1..SeriesLen(e, n, d) |-> SlotOf(e, i, d)]]]

\* A location of the upstream's list, and a second one behind it.
LocationOf(weatherElement) ==
  [t |-> "object", locationName |-> Str("gao-xiong-shi"),
   weatherElement |-> weatherElement]
OtherLocation ==
  [t |-> "object", locationName |-> Str("xin-bei-shi"),
   weatherElement |-> Arr(<<>>)]

RecordsOfLocation(location) ==
  [t |-> "object", datasetDescription |-> Str("36h forecast"),
   location |-> location]
DataOf(records) == [t |-> "object", records |-> records]

\* response.data of a resolved weather call with no usable location list:
\* no body, no records, no records.location, an empty list, and a location
\* that is no list.
NoRecordsData == DataOf(undefined)
NoLocationData == DataOf(RecordsOfLocation(undefined))
EmptyLocationData == DataOf(RecordsOfLocation(Arr(<<>>)))
NonArrayLocationData == DataOf(RecordsOfLocation(EmptyObject))
DataWithoutList ==
  {null, NoRecordsData, NoLocationData, EmptyLocationData, NonArrayLocationData}

\* response.data with a non-empty location list: the location with the
\* given weatherElement, alone or with another one behind it.
DataWithList(weatherElement) ==
  {DataOf(RecordsOfLocation(Arr(locs))) :
     locs \in {<<LocationOf(weatherElement)>>,
               <<LocationOf(weatherElement), OtherLocation>>}}

\* The replies the concurrent server is run against: one of each class.
WeatherReplyCatalog ==
  {Resolved(NoRecordsData), Resolved(EmptyLocationData),
   Resolved(DataOf(RecordsOfLocation(Arr(<<LocationOf(
      Arr(ElementsOf(<<"Wx", "PoP">>, 1, NoDefect)))>>)))),
   Resolved(DataOf(RecordsOfLocation(Arr(<<LocationOf(Arr(<<>>))>>)))),
   Resolved(DataOf(RecordsOfLocation(Arr(<<LocationOf(
      Arr(ElementsOf(<<"Wx", "PoP">>, 1, [kind |-> "short", e |-> 2, i |-> 0])))>>)))),
   ErrorResponse(401, ErrBody(Str("invalid key"), undefined)),
   ErrorResponse(500, undefined),
   NoResponse}

\* The address object of a Nominatim answer: each preference field absent,
\* empty or a name of its own.
AddressOf(county, city, town, city_district, state) ==
  [t |-> "object", county |-> county, city |-> city, town |-> town,
   city_district |-> city_district, state |-> state]

Absent == {undefined, Str("")}
Counties == Absent \cup {Str("xin-bei-shi"), Str("tai-bei-shi"), Str("TAI-bei-shi"), Str("tai-dong-xian")}
Cities == Absent \cup {Str("tai-zhong-shi"), Str("gao-xiong-shi")}
Towns == Absent \cup {Str("ban-qiao-qu")}
CityDistricts == Absent \cup {Str("tai-nan-shi")}
States == Absent \cup {Str("tai-wan-sheng"), Str("TAI-nan-shi")}

Addresses ==
  {AddressOf(a, b, c, d, e) :
     a \in Counties, b \in Cities, c \in Towns, d \in CityDistricts, e \in States}

GeocodeDataOf(address) == [t |-> "object", address |-> address]

GeocodeReplyCatalog ==
  {Resolved(GeocodeDataOf(AddressOf(Str("xin-bei-shi"), undefined, undefined, undefined, undefined))),
   Resolved(GeocodeDataOf(AddressOf(Str("tai-bei-shi"), Str("tai-zhong-shi"), undefined, undefined, undefined))),
   Resolved(GeocodeDataOf(undefined)),
   Resolved(null),
   ErrorResponse(401, ErrBody(Str("invalid key"), undefined)),
   ErrorResponse(500, Str("Bad Gateway")),
   NoResponse}

\* ------------------------------------------------------------------ state
VARIABLES
  CWA_API_KEY,  \* process.env.CWA_API_KEY, read once at startup
  build,        \* which of the two server files is running
  pc,           \* per request: idle, awaiting, settled, done
  route,        \* per request: the path it came in on
  query,        \* per request: req.query
  calls,        \* per request: the outbound calls made, in order
  reply,        \* per request: how its outbound call settled
  responses,    \* per request: the responses sent, in order
  unhandled     \* per request: an exception left the handler

vars == <<CWA_API_KEY, build, pc, route, query, calls, reply, responses, unhandled>>

Init ==
  /\ CWA_API_KEY \in {undefined, Str(""), Str("CWA-KEY")}
  /\ build \in Builds
  /\ pc = [r \in Requests |-> "idle"]
  /\ route = [r \in Requests |-> "none"]
  /\ query = [r \in Requests |-> Query(undefined, undefined, undefined)]
  /\ calls = [r \in Requests |-> <<>>]
  /\ reply = [r \in Requests |-> NoReply]
  /\ responses = [r \in Requests |-> <<>>]
  /\ unhandled = [r \in Requests |-> FALSE]

\* The handler of request r ran a stretch of code that ended with out.
Ran(r, out) ==
  /\ pc' = [pc EXCEPT ![r] = IF out.kind = "await" THEN "awaiting" ELSE "done"]
  /\ calls' = [calls EXCEPT ![r] = IF out.kind = "await" THEN Append(@, out.call) ELSE @]
  /\ responses' = [responses EXCEPT ![r] = IF out.kind = "respond" THEN Append(@, out.res) ELSE @]
  /\ unhandled' = [unhandled EXCEPT ![r] = (out.kind = "throw")]

\* app.get("/api/weather", getWeatherByCity)
Weather(r, q) ==
  /\ pc[r] = "idle"
  /\ route' = [route EXCEPT ![r] = "/api/weather"]
  /\ query' = [query EXCEPT ![r] = q]
  /\ Ran(r, GetWeatherByCityStart(CWA_API_KEY, q))
  /\ UNCHANGED <<CWA_API_KEY, build, reply>>

\* app.get("/api/weather/kaohsiung", ...): the city is set, then the same
\* handler runs.
Kaohsiung(r, q) ==
  /\ pc[r] = "idle"
  /\ route' = [route EXCEPT ![r] = "/api/weather/kaohsiung"]
  /\ query' = [query EXCEPT ![r] = [q EXCEPT !.city = Str("gao-xiong-shi")]]
  /\ Ran(r, GetWeatherByCityStart(CWA_API_KEY, query'[r]))
  /\ UNCHANGED <<CWA_API_KEY, build, reply>>

\* app.get("/api/reverse-geocode", reverseGeocode)
Geocode(r, q) ==
  /\ pc[r] = "idle"
  /\ route' = [route EXCEPT ![r] = "/api/reverse-geocode"]
  /\ query' = [query EXCEPT ![r] = q]
  /\ Ran(r, ReverseGeocodeStart(build, q))
  /\ UNCHANGED <<CWA_API_KEY, build, reply>>

WeatherRoutes == {"/api/weather", "/api/weather/kaohsiung"}

\* The awaited axios.get of request r settles with rep.
Settles(r, rep) ==
  /\ pc[r] = "awaiting"
  /\ reply' = [reply EXCEPT ![r] = rep]
  /\ pc' = [pc EXCEPT ![r] = "settled"]
  /\ UNCHANGED <<CWA_API_KEY, build, route, query, calls, responses, unhandled>>

AwaitingCwa(r) == pc[r] = "awaiting" /\ route[r] \in WeatherRoutes
AwaitingNominatim(r) == pc[r] = "awaiting" /\ route[r] = "/api/reverse-geocode"

\* getWeatherByCity runs on from its await.
WeatherResumes(r) ==
  /\ pc[r] = "settled"
  /\ route[r] \in WeatherRoutes
  /\ Ran(r, GetWeatherByCityResume(build, query[r].city, reply[r]))
  /\ UNCHANGED <<CWA_API_KEY, build, route, query, reply>>

\* reverseGeocode runs on from its await.
GeocodeResumes(r) ==
  /\ pc[r] = "settled"
  /\ route[r] = "/api/reverse-geocode"
  /\ Ran(r, ReverseGeocodeResume(build, reply[r]))
  /\ UNCHANGED <<CWA_API_KEY, build, route, query, reply>>

\* The server under concurrent requests.
RouteWeather == \E r \in Requests, q \in WeatherQueries : Weather(r, q)
RouteKaohsiung == \E r \in Requests, q \in WeatherQueries : Kaohsiung(r, q)
RouteGeocode == \E r \in Requests, q \in GeocodeQueries : Geocode(r, q)
CwaAnswers ==
  \E r \in Requests : AwaitingCwa(r) /\ \E rep \in WeatherReplyCatalog : Settles(r, rep)
NominatimAnswers ==
  \E r \in Requests : AwaitingNominatim(r) /\ \E rep \in GeocodeReplyCatalog : Settles(r, rep)
WeatherContinues == \E r \in Requests : WeatherResumes(r)
GeocodeContinues == \E r \in Requests : GeocodeResumes(r)

Next ==
  \/ RouteWeather
  \/ RouteKaohsiung
  \/ RouteGeocode
  \/ CwaAnswers
  \/ NominatimAnswers
  \/ WeatherContinues
  \/ GeocodeContinues

Spec == Init /\ [][Next]_vars

\* The event loop runs every continuation whose promise has settled.
SpecFair ==
  /\ Spec
  /\ \A r \in Requests : WF_vars(WeatherResumes(r)) /\ WF_vars(GeocodeResumes(r))

\* One request against everything its upstream may answer.
WeatherOne == \E q \in WeatherQueries : Weather(1, q)
KaohsiungOne == \E q \in WeatherQueries : Kaohsiung(1, q)
GeocodeOne == \E q \in GeocodeQueries : Geocode(1, q)
\* The CWA endpoint fails, or answers without a usable location list.
CwaAnswersOneWithoutList ==
  /\ AwaitingCwa(1)
  /\ \E rep \in FailureReplies \cup {Resolved(d) : d \in DataWithoutList} :
       Settles(1, rep)
\* The CWA endpoint answers with a location list: a location without its
\* weatherElement, or with any element list of the bounds.
CwaAnswersOneWithList ==
  /\ AwaitingCwa(1)
  /\ \E cs \in CodeSeqs, n \in 0..MaxSlots :
       \E d \in Defects(Len(cs), n) :
         \E we \in {Arr(ElementsOf(cs, n, d)), undefined} :
           \E data \in DataWithList(we) : Settles(1, Resolved(data))
\* Nominatim fails, or answers without an address.
NominatimAnswersOneWithoutAddress ==
  /\ AwaitingNominatim(1)
  /\ \E rep \in FailureReplies \cup {Resolved(null), Resolved(GeocodeDataOf(undefined))} :
       Settles(1, rep)
\* Nominatim answers with an address.
NominatimAnswersOneWithAddress ==
  /\ AwaitingNominatim(1)
  /\ \E a \in Addresses : Settles(1, Resolved(GeocodeDataOf(a)))
WeatherContinuesOne == WeatherResumes(1)
GeocodeContinuesOne == GeocodeResumes(1)

NextOne ==
  \/ WeatherOne
  \/ KaohsiungOne
  \/ GeocodeOne
  \/ CwaAnswersOneWithoutList
  \/ CwaAnswersOneWithList
  \/ NominatimAnswersOneWithoutAddress
  \/ NominatimAnswersOneWithAddress
  \/ WeatherContinuesOne
  \/ GeocodeContinuesOne

SpecOne == Init /\ [][NextOne]_vars

\* ================================================================ claims
\* The one response of a request that has been answered.
Answered(r) == pc[r] = "done" /\ Len(responses[r]) = 1
Response(r) == responses[r][1]
IsWeather(r) == route[r] \in WeatherRoutes
IsGeocode(r) == route[r] = "/api/reverse-geocode"
Arrived(r) == pc[r] # "idle"

\* C2 as stated: every weather request whose city parameter is missing or
\* empty is answered 400 MissingParameter, with no outbound call made.
C2_MissingCityAlways400 ==
  \A r \in Requests :
    (Arrived(r) /\ IsWeather(r) /\ ~Truthy(query[r].city)) =>
      /\ Answered(r)
      /\ Response(r).status = 400
      /\ Response(r).error = MissingParameter
      /\ calls[r] = <<>>

\* C2 amended: when the API key is configured, every weather request whose
\* city parameter is missing or empty is answered 400 MissingParameter,
\* with no outbound call made.
C2_MissingCity400WhenKeySet ==
  \A r \in Requests :
    (Arrived(r) /\ IsWeather(r) /\ ~Truthy(query[r].city) /\ Truthy(CWA_API_KEY)) =>
      /\ Answered(r)
      /\ Response(r).status = 400
      /\ Response(r).error = MissingParameter
      /\ calls[r] = <<>>

C2_Witness ==
  \E r \in Requests :
    /\ Answered(r) /\ route[r] = "/api/weather" /\ Truthy(CWA_API_KEY)
    /\ query[r].city = Str("")
    /\ Response(r).status = 400

\* C3: with no API key configured, every weather request, whatever its city
\* and on either weather route, is answered 500 ServerMisconfiguration,
\* with no outbound call made.
C3_NoKeyAlways500 ==
  \A r \in Requests :
    (Arrived(r) /\ IsWeather(r) /\ ~Truthy(CWA_API_KEY)) =>
      /\ Answered(r)
      /\ Response(r).status = 500
      /\ Response(r).error = ServerMisconfiguration
      /\ calls[r] = <<>>

C3_Witness ==
  \E r1, r2 \in Requests :
    /\ ~Truthy(CWA_API_KEY)
    /\ Answered(r1) /\ route[r1] = "/api/weather/kaohsiung"
    /\ Response(r1).error = ServerMisconfiguration
    /\ Answered(r2) /\ route[r2] = "/api/weather" /\ ~Truthy(query[r2].city)
    /\ Response(r2).error = ServerMisconfiguration

\* ------------------------------------------------------------ C1, C4, C10
\* The upstream weather reply of request r carries a non-empty location list.
HasLocationList(data) ==
  /\ data.t = "object"
  /\ Truthy(data.records)
  /\ data.records.location.t = "array"
  /\ Len(data.records.location.items) > 0

\* The first location of the reply, its element list (empty when the
\* location carries none) and the length of the upstream time series.
FirstLocation(data) == data.records.location.items[1]
UpstreamElements(data) ==
  IF FirstLocation(data).weatherElement.t = "array"
  THEN FirstLocation(data).weatherElement.items
  ELSE <<>>
UpstreamSeriesLength(data) ==
  IF Len(UpstreamElements(data)) = 0 THEN 0 ELSE Len(UpstreamElements(data)[1].time)

ValueFields == {"weather", "rain", "minTemp", "maxTemp", "comfort", "windSpeed"}

\* C1 as stated: whenever the upstream reply carries a non-empty location
\* list, the answer is a success whose forecasts are one per upstream time
\* slot, in slot order, each of the six value fields a string.
C1_SuccessForEveryLocationList ==
  \A r \in Requests :
    (Answered(r) /\ IsWeather(r) /\ reply[r].outcome = "resolved"
       /\ HasLocationList(reply[r].data)) =>
      /\ Response(r).success = "true"
      /\ Len(Response(r).data.forecasts) = UpstreamSeriesLength(reply[r].data)
      /\ \A i \in 1..Len(Response(r).data.forecasts) :
           /\ Response(r).data.forecasts[i].startTime =
                UpstreamElements(reply[r].data)[1].time[i].startTime
           /\ \A f \in ValueFields : Response(r).data.forecasts[i][f].t = "string"

\* C4: a resolved upstream reply with no records, no records.location or an
\* empty location list is answered 404 NotFound, never with a success body.
C4_NoLocationIs404 ==
  \A r \in Requests :
    (Answered(r) /\ IsWeather(r) /\ reply[r].outcome = "resolved"
       /\ reply[r].data \in {NoRecordsData, NoLocationData, EmptyLocationData}) =>
      /\ Response(r).status = 404
      /\ Response(r).error = NotFound
      /\ Response(r).success # "true"
      /\ Response(r).data = undefined

C4_Witness ==
  \E r \in Requests :
    /\ Answered(r) /\ IsWeather(r)
    /\ reply[r] = Resolved(EmptyLocationData)
    /\ Response(r).status = 404

\* The element code each value field is written from, and the suffix
\* appended to its value.
FieldCode ==
  [weather |-> "Wx", rain |-> "PoP", minTemp |-> "MinT", maxTemp |-> "MaxT",
   comfort |-> "CI", windSpeed |-> "WS"]
FieldSuffix ==
  [weather |-> "", rain |-> "%", minTemp |-> "°C", maxTemp |-> "°C",
   comfort |-> "", windSpeed |-> ""]

\* The positions of the series of elements that carry code.
SeriesWithCode(elements, code) ==
  {k \in 1..Len(elements) : elements[k].elementName = code}
Last(ks) == CHOOSE k \in ks : \A j \in ks : j <= k

\* What the claim says field f of window i holds.
ExpectedField(elements, i, f) ==
  LET ks == SeriesWithCode(elements, FieldCode[f])
  IN IF ks = {}
     THEN Str("")
     ELSE LET v == elements[Last(ks)].time[i].parameter.parameterName
          IN IF FieldSuffix[f] = "" THEN v ELSE Str(ToJSString(v) \o FieldSuffix[f])

\* C10: in every window built for time index i, each value field is the
\* value at index i of the series carrying its code (verbatim for Wx, CI,
\* WS; with "%" for PoP; with "°C" for MinT and MaxT), the empty string when
\* no series carries the code; series with other codes change no field.
C10_FieldsFromMatchingSeries ==
  \A r \in Requests :
    (Answered(r) /\ IsWeather(r) /\ Response(r).success = "true") =>
      \A i \in 1..Len(Response(r).data.forecasts) :
        \A f \in ValueFields :
          Response(r).data.forecasts[i][f] =
            ExpectedField(UpstreamElements(reply[r].data), i, f)

\* The dataset in full, two slots long: window 2 holds the values of slot 2;
\* and a reply with an unknown code only: every field stays empty.
C10_Witness ==
  \E r \in Requests :
    /\ Answered(r) /\ IsWeather(r) /\ Response(r).success = "true"
    /\ Len(UpstreamElements(reply[r].data)) = Len(FullCodes)
    /\ Len(Response(r).data.forecasts) = 2
    /\ Response(r).data.forecasts[2].weather = Str("12")
    /\ Response(r).data.forecasts[2].rain = Str("22%")
    /\ Response(r).data.forecasts[2].minTemp = Str("32°C")
    /\ Response(r).data.forecasts[2].maxTemp = Str("52°C")

\* ---------------------------------------------------------------- C7, C8
\* The address object of the Nominatim reply of request r.
HasAddress(r) ==
  /\ reply[r].outcome = "resolved"
  /\ reply[r].data.t = "object"
  /\ reply[r].data.address.t = "object"
AddressOfReply(r) == reply[r].data.address

\* The first non-empty field of address in the order given, undefined when
\* there is none.
RECURSIVE FirstNonEmpty(_, _, _)
FirstNonEmpty(address, order, k) ==
  IF k > Len(order)
  THEN undefined
  ELSE IF Truthy(address[order[k]])
  THEN address[order[k]]
  ELSE FirstNonEmpty(address, order, k + 1)

\* The order C7 states, and the order each build documents.
CountyFirst == <<"county", "city", "town", "city_district", "state">>
CityFirst == <<"city", "county", "state">>
DocumentedOrder(b) == IF b = "part_000" THEN CountyFirst ELSE CityFirst

\* CityNameMapping as the claims state it: four legacy names, each with its
\* canonical form; every other name maps to itself.
LegacyNames == {"tai-bei-shi", "tai-zhong-shi", "tai-nan-shi", "tai-dong-xian"}
CanonicalForm ==
  [n \in LegacyNames |->
     CASE n = "tai-bei-shi" -> "TAI-bei-shi"
       [] n = "tai-zhong-shi" -> "TAI-zhong-shi"
       [] n = "tai-nan-shi" -> "TAI-nan-shi"
       [] n = "tai-dong-xian" -> "TAI-dong-xian"]
CityNameMapping(name) ==
  IF name.t = "string" /\ name.v \in LegacyNames THEN Str(CanonicalForm[name.v]) ELSE name

\* What C7 says of a geocode answer, for a preference order.
SelectsInOrder(r, order) ==
  LET selected == FirstNonEmpty(AddressOfReply(r), order, 1)
  IN IF Truthy(selected)
     THEN /\ Response(r).status = StatusOK
          /\ Response(r).success = "true"
          /\ Response(r).city \in {selected, CityNameMapping(selected)}
     ELSE /\ Response(r).status = 404
          /\ Response(r).error = NotFoundCity
          /\ Response(r).success = "false"

\* C7 as stated: reverseGeocode selects the first non-empty field in the
\* one order county, city, town, city_district, state, and answers 404
\* NotFound when none of these is populated.
C7_CountyFirstOrder ==
  \A r \in Requests :
    (Answered(r) /\ IsGeocode(r) /\ HasAddress(r)) => SelectsInOrder(r, CountyFirst)

\* C7 amended: reverseGeocode selects the first non-empty field in the order
\* its build documents: county, city, town, city_district, state in
\* part_000; city, county, state in server.js; and answers 404 NotFound when
\* none of the fields of that order is populated.
C7_DocumentedOrder ==
  \A r \in Requests :
    (Answered(r) /\ IsGeocode(r) /\ HasAddress(r)) =>
      SelectsInOrder(r, DocumentedOrder(build))

\* part_000, county empty, no city, a town and a state: the town is returned.
C7_Witness ==
  \E r \in Requests :
    /\ Answered(r) /\ IsGeocode(r) /\ HasAddress(r) /\ build = "part_000"
    /\ AddressOfReply(r).county = Str("")
    /\ AddressOfReply(r).city = undefined
    /\ AddressOfReply(r).town = Str("ban-qiao-qu")
    /\ AddressOfReply(r).state = Str("tai-wan-sheng")
    /\ Response(r).city = Str("ban-qiao-qu")

\* The normalization reverseGeocode applies, over the place names: legacy
\* to canonical, every other name unchanged, twice the same as once.
InlineMappingNormalizes ==
  \A n \in PlaceNames :
    LET once == NormalizedCity("part_000", Str(n))
    IN /\ NormalizedCity("part_000", once) = once
       /\ n \in LegacyNames => once = Str(CanonicalForm[n])
       /\ n \notin LegacyNames => once = Str(n)

\* The same of the helper normalizeTaiwanCityName, which also trims.
HelperNormalizes ==
  \A n \in PlaceNames \cup {Padded(m) : m \in PlaceNames} :
    LET once == normalizeTaiwanCityName(Str(n))
    IN /\ normalizeTaiwanCityName(once) = once
       /\ n \in LegacyNames => once = Str(CanonicalForm[n])
       /\ n \in PlaceNames \ LegacyNames => once = Str(n)

\* C8: in part_000 the city returned by reverseGeocode is CityNameMapping of
\* the selected field; the normalization maps each of the four legacy names
\* to its canonical form, leaves every other name unchanged, and applied
\* twice gives what it gives applied once. The unused helper
\* normalizeTaiwanCityName maps the same way and is idempotent as well.
C8_NormalizedAndIdempotent ==
  /\ \A r \in Requests :
       (Answered(r) /\ IsGeocode(r) /\ HasAddress(r) /\ build = "part_000"
          /\ Response(r).success = "true") =>
         Response(r).city =
           CityNameMapping(FirstNonEmpty(AddressOfReply(r), CountyFirst, 1))
  /\ InlineMappingNormalizes
  /\ HelperNormalizes

\* A legacy county comes back in its canonical form.
C8_Witness ==
  \E r \in Requests :
    /\ Answered(r) /\ IsGeocode(r) /\ HasAddress(r) /\ build = "part_000"
    /\ AddressOfReply(r).county = Str("tai-dong-xian")
    /\ Response(r).city = Str("TAI-dong-xian")

\* -------------------------------------------------------------------- C5
\* The UpstreamError label and the fixed InternalError message of the call
\* site of request r.
UpstreamErrorOf(r) == IF IsWeather(r) THEN UpstreamErrorCwa ELSE UpstreamErrorGeocode
InternalMessageOf(r) == IF IsWeather(r) THEN MsgNoWeatherRetry ELSE MsgNoCountyRetry

\* The upstream's own message: the message of its body, or the body itself
\* when it is a string.
OwnMessage(data) == IF data.t = "object" THEN Get(data, "message") ELSE data

\* The classification of a failed call, with the message an upstream
\* failure is said to carry.
Classified(r, message) ==
  /\ reply[r].outcome = "error-response" =>
       /\ Response(r).status = reply[r].status
       /\ Response(r).error = UpstreamErrorOf(r)
       /\ Response(r).message = message
  /\ reply[r].outcome = "no-response" =>
       /\ Response(r).status = 500
       /\ Response(r).error = InternalError
       /\ Response(r).message = InternalMessageOf(r)

\* C5 as stated: at both call sites of part_000 an upstream failure response
\* is passed on with its status, as an UpstreamError whose message is the
\* upstream's own message; no response is a fixed InternalError 500.
C5_MessageIsUpstreamsOwn ==
  \A r \in Requests :
    (Answered(r) /\ build = "part_000") =>
      Classified(r, OwnMessage(reply[r].data))

\* The message of an UpstreamError where each call site looks for it, and
\* the fixed default when the upstream supplies none there.
MessageRead(r) ==
  LET data == reply[r].data
  IN IF IsWeather(r)
     THEN IF data.t = "object" /\ Truthy(data.message) THEN data.message ELSE MsgNoWeather
     ELSE IF data.t = "string" THEN data
          ELSE IF data.t = "object" /\ Truthy(data.error) THEN data.error
          ELSE MsgNoCounty

\* C5 amended: at both call sites of part_000 an upstream failure response
\* is passed on with exactly its status, as an UpstreamError whose message
\* is the upstream's own where the call site looks for it (the weather call:
\* the body's message; the geocoding call: a string body itself, else the
\* body's error) and a fixed default message when the upstream supplies none
\* there; no response is a fixed InternalError 500.
C5_MessageWhereRead ==
  \A r \in Requests :
    (Answered(r) /\ build = "part_000") => Classified(r, MessageRead(r))

\* Upstream 401 with body {message: "invalid key"} on the weather call.
C5_Witness ==
  \E r \in Requests :
    /\ Answered(r) /\ IsWeather(r) /\ build = "part_000"
    /\ reply[r] = ErrorResponse(401, ErrBody(Str("invalid key"), undefined))
    /\ Response(r).status = 401
    /\ Response(r).error = UpstreamErrorCwa
    /\ Response(r).message = Str("invalid key")

\* -------------------------------------------------------------------- C6
\* The handler's own code threw while processing a resolved reply.
LocalFault(r) ==
  /\ reply[r].outcome = "resolved"
  /\ IF IsWeather(r)
     THEN WeatherTryBody(build, query[r].city, reply[r].data).kind = "throw"
     ELSE GeocodeTryBody(build, reply[r].data).kind = "throw"

\* Why request r failed, of the three causes a caller is to tell apart.
FailureCause(r) ==
  CASE reply[r].outcome = "error-response" -> "upstream answered with a failure"
    [] reply[r].outcome = "no-response" -> "upstream not reached"
    [] LocalFault(r) -> "local fault"
    [] OTHER -> "none"

\* What the caller sees of a response.
Seen(r) == <<Response(r).status, Response(r).error, Response(r).message>>

\* The handlers C6 is about: both of part_000, getWeatherByCity of server.js.
HandlerOfC6(r) == build = "part_000" \/ IsWeather(r)

\* C6: two requests to the same endpoint that failed for different causes
\* (upstream answered with a failure, upstream not reached, local fault) are
\* never answered with the same status, label and message.
C6_CausesDistinguishable ==
  \A r1, r2 \in Requests :
    (/\ Answered(r1) /\ Answered(r2)
     /\ HandlerOfC6(r1) /\ HandlerOfC6(r2)
     /\ IsWeather(r1) = IsWeather(r2)
     /\ FailureCause(r1) # "none" /\ FailureCause(r2) # "none"
     /\ FailureCause(r1) # FailureCause(r2)) =>
      Seen(r1) # Seen(r2)

\* -------------------------------------------------------------------- C9
\* A response is a success body or one of the classified errors, with the
\* status of its kind.
IsClassified(r, res) ==
  \/ /\ res.success = "true" /\ res.status = StatusOK /\ res.error = ""
  \/ /\ res.error = MissingParameter /\ res.status = 400
  \/ /\ res.error = ServerMisconfiguration /\ res.status = 500
  \/ /\ res.error \in {NotFound, NotFoundCity} /\ res.status = 404
  \/ /\ res.error \in {UpstreamErrorCwa, UpstreamErrorGeocode}
     /\ reply[r].outcome = "error-response" /\ res.status = reply[r].status
  \/ /\ res.error = InternalError /\ res.status = 500

\* At most one outbound call, at most one response and exactly one once the
\* handler has finished, that response classified, nothing thrown past the
\* handler.
OneCallOneResponse(r) ==
  /\ Len(calls[r]) <= 1
  /\ Len(responses[r]) <= 1
  /\ pc[r] = "done" <=> Len(responses[r]) = 1
  /\ pc[r] \in {"awaiting", "settled"} => Len(calls[r]) = 1
  /\ \A k \in 1..Len(responses[r]) : IsClassified(r, responses[r][k])
  /\ ~unhandled[r]

\* C9: under any interleaving of the requests, each handler makes at most
\* one outbound call and sends exactly one response, a success or a
\* classified error; no fault leaves the handler; and every request whose
\* upstream call has settled is answered.
C9_ExactlyOneResponse ==
  /\ [](\A r \in Requests : OneCallOneResponse(r))
  /\ \A r \in Requests : (pc[r] = "settled") ~> Answered(r)

\* A weather request answered after a local fault on a malformed payload
\* while a geocode request is still waiting for Nominatim.
C9_Witness ==
  \E r1, r2 \in Requests :
    /\ Answered(r1) /\ IsWeather(r1) /\ LocalFault(r1)
    /\ Len(calls[r1]) = 1
    /\ Response(r1).error = InternalError
    /\ IsGeocode(r2) /\ pc[r2] = "awaiting"

====
